---- MODULE Spec2Model ----
(***************************************************************************)
(* A model of bin/Screens.py: the Display adapter (canvas, rotation,       *)
(* screenshot, time formatting), the BaseScreen text-layout engine         *)
(* (run, render, display_text, set_text_lines, text_y, font cache) and the  *)
(* concrete screens ExitScreen and StatusScreen.                           *)
(*                                                                         *)
(* Text is modelled by TLA+ strings, built with \o exactly where the       *)
(* source builds them with f-strings and +.  The canvas is the set of the  *)
(* text items drawn on it since it was last filled with 0; each item keeps *)
(* the rotation it has undergone since it was drawn.                       *)
(***************************************************************************)
EXTENDS Integers, Sequences, FiniteSets, TLC

VARIABLES
    width,       \* Display.width   (line 34)
    height,      \* Display.height  (line 35)
    rotate,      \* Display.rotate  (line 36): <<type, degrees>>
    screenshot,  \* Display.screenshot (line 40): [on, dir]
    image,       \* Display.image, with Display.draw bound to it (lines 38-39, 52-53)
    device,      \* the image last handed to device.image()/display()
    text_indent, \* BaseScreen.text_indent of each screen (a per-class constant)
    font_size,   \* BaseScreen.font_size of each screen
    text_lines,  \* BaseScreen.text_lines of each screen (0: attribute not set yet)
    fonts,       \* BaseScreen.fonts, the process-wide cache: key -> font object
    rasterized,  \* calls made to ImageFont.truetype, counted per <<path, size>>
    returned,    \* every <<size, is_bold, object>> a font() call has returned
    pc,          \* position of the single thread of control
    frame,       \* locals of the call in progress
    log,         \* what the call in progress has done so far, in order
    outcome,     \* how the last run(), display_text or font call ended
    previous     \* outcome of the run() before the one in progress

vars == << width, height, rotate, screenshot, image, device, text_indent,
           font_size, text_lines, fonts, rasterized, returned, pc, frame,
           log, outcome, previous >>

displayVars == << width, height, rotate, screenshot >>

(***************************************************************************)
(* Bounds of the model                                                     *)
(***************************************************************************)
\* the longest text_lines argument tried
MaxLines == 7
\* the most text items a canvas holds before a direct display_text call
MaxItems == 2

(***************************************************************************)
(* Strings                                                                 *)
(***************************************************************************)
RECURSIVE RStrip(_)
\* str.rstrip('/')
RStrip(s) ==
    IF Len(s) > 0 /\ SubSeq(s, Len(s), Len(s)) = "/"
    THEN RStrip(SubSeq(s, 1, Len(s) - 1))
    ELSE s

\* t occurs in s
Contains(s, t) ==
    \E i \in 1..(Len(s) - Len(t) + 1) : SubSeq(s, i, i + Len(t) - 1) = t

\* "%02d"
Pad2(n) == IF n < 10 THEN "0" \o ToString(n) ELSE ToString(n)

(***************************************************************************)
(* Display: time helpers                                                   *)
(***************************************************************************)
\* now.strftime("%H:%M:%S") wrapped in "T[...]"; now in seconds (UTC)
human_readable_time_now(now) ==
    "T[" \o Pad2((now \div 3600) % 24) \o ":" \o Pad2((now \div 60) % 60)
         \o ":" \o Pad2(now % 60) \o "]"

RECURSIVE GCD(_, _)
GCD(a, b) == IF b = 0 THEN a ELSE GCD(b, a % b)

RECURSIVE IsPowerOfTwo(_)
IsPowerOfTwo(d) == d = 1 \/ (d % 2 = 0 /\ IsPowerOfTwo(d \div 2))

RECURSIVE PowMod2(_, _)
\* 2^s mod d
PowMod2(s, d) == IF s = 0 THEN 1 % d ELSE (2 * PowMod2(s - 1, d)) % d

RECURSIVE FloorLog2(_, _)
\* floor(log2(n / d)) for n, d > 0
FloorLog2(n, d) ==
    IF n >= 2 * d THEN 1 + FloorLog2(n, 2 * d)
    ELSE IF n < d THEN FloorLog2(2 * n, d) - 1
    ELSE 0

\* Whether the IEEE double nearest to n/d (n/d not a double) lies above n/d:
\* the fraction of (n/d) / ulp, with ulp = 2^(floor(log2(n/d)) - 52)
DoubleAbove(n, d) ==
    2 * (((n % d) * PowMod2(52 - FloorLog2(n, d), d)) % d) > d

\* f"{x:.2f}" of the double x = e / div, as a count of hundredths: the
\* decimal nearest to the double; on a decimal tie e/div the double decides
\* (an exact double goes to the even digit)
Hundredths(e, div) ==
    LET q == (100 * e) \div div
        r == (100 * e) % div
        g == GCD(e, div)
    IN  IF 2 * r < div THEN q
        ELSE IF 2 * r > div THEN q + 1
        ELSE IF IsPowerOfTwo(div \div g)
             THEN (IF q % 2 = 0 THEN q ELSE q + 1)
        ELSE IF DoubleAbove(e \div g, div \div g) THEN q + 1
        ELSE q

\* a unit choice that keeps 86400 seconds in hours
TimeUnitDayInclusive(e) ==
    IF e < 3600 THEN [div |-> 60, unit |-> "m"]
    ELSE IF e <= 86400 THEN [div |-> 3600, unit |-> "h"]
    ELSE [div |-> 86400, unit |-> "d"]

\* the unit chosen for total_seconds = e
TimeUnit(e) ==
    IF e < 3600 THEN [div |-> 60, unit |-> "m"]
    ELSE IF e < 86400 THEN [div |-> 3600, unit |-> "h"]
    ELSE [div |-> 86400, unit |-> "d"]

\* f"{value:.2f}" for a value of h hundredths, h >= 0
Format2f(h) ==
    ToString(h \div 100) \o "." \o ToString((h % 100) \div 10) \o ToString(h % 10)

\* Display.human_readable_time_since for a timestamp e seconds before now
human_readable_time_since(e) ==
    LET u == TimeUnit(e)
    IN  Format2f(Hundredths(e, u.div)) \o u.unit \o " ago"

(***************************************************************************)
(* Display: canvas, device, screenshot                                     *)
(***************************************************************************)
\* Display.SCREENSHOT_PATH
SCREENSHOT_PATH == "./img/examples/"

\* the geometry the driver reports: SSD1306_128_32, SSD1309_128_64, and
\* SSD1306 again for any other driver name
DriverSize(driver) ==
    IF driver = "SSD1309" THEN <<128, 64>> ELSE <<128, 32>>

\* Image.new("1", (w, h)): nothing drawn
NewImage(w, h) == [size |-> <<w, h>>, items |-> {}]

\* a fill that leaves the image as it was
RectangleKeep(img, w, h) == img

\* draw.rectangle((0, 0, w, h), outline = 0, fill = 0) on img: every pixel of
\* an image no larger than the rectangle becomes 0
Rectangle(img, w, h) ==
    IF img.size[1] <= w + 1 /\ img.size[2] <= h + 1
    THEN [img EXCEPT !.items = {}]
    ELSE img

\* draw.text((x, y), text, font = font, fill = 255) on img
DrawText(img, x, y, text, font) ==
    [img EXCEPT !.items = @ \cup {[text |-> text, x |-> x, y |-> y, font |-> font,
                                   fill |-> 255, rot |-> 0, fresh |-> TRUE]}]

\* a rotation applied twice over
RotatedTwice(img, d) ==
    [img EXCEPT !.items = {[it EXCEPT !.rot = @ + 2 * d] : it \in @}]

\* image.rotate(d): a new image of the same size, its content turned by d
Rotated(img, d) ==
    [img EXCEPT !.items = {[it EXCEPT !.rot = @ + d] : it \in @}]

\* bookkeeping at the start of a call: what is on an image now was not
\* drawn by the call that begins
Aged(img) ==
    [img EXCEPT !.items = {[it EXCEPT !.fresh = FALSE] : it \in @}]

\* isinstance(self.rotate, int): True for int and for bool
IsInt(r) == r[1] \in {"int", "bool"}

\* Display.show: the image handed to the device
Shown(img, r) == IF IsInt(r) THEN Rotated(img, r[2]) ELSE img

\* str.lower()
Upper == "ABCDEFGHIJKLMNOPQRSTUVWXYZ"
Lowercase == "abcdefghijklmnopqrstuvwxyz"
LowerChar(c) ==
    IF \E i \in 1..Len(Upper) : SubSeq(Upper, i, i) = c
    THEN LET i == CHOOSE i \in 1..Len(Upper) : SubSeq(Upper, i, i) = c
         IN  SubSeq(Lowercase, i, i)
    ELSE c

RECURSIVE Lower(_)
Lower(s) ==
    IF Len(s) = 0 THEN s
    ELSE LowerChar(SubSeq(s, 1, 1)) \o Lower(SubSeq(s, 2, Len(s)))

RECURSIVE Replace(_, _, _)
\* str.replace(old, new), old not empty
Replace(s, old, new) ==
    IF Len(s) < Len(old) THEN s
    ELSE IF SubSeq(s, 1, Len(old)) = old
         THEN new \o Replace(SubSeq(s, Len(old) + 1, Len(s)), old, new)
    ELSE SubSeq(s, 1, 1) \o Replace(SubSeq(s, 2, Len(s)), old, new)

\* Display.capture_screenshot: the file written
ScreenshotPath(shot, name) ==
    LET dir == IF shot.dir # "" THEN shot.dir ELSE SCREENSHOT_PATH
    IN  RStrip(dir) \o "/" \o Lower(name) \o ".png"

(***************************************************************************)
(* Screens                                                                 *)
(***************************************************************************)
\* the screens of the process: BaseScreen itself, a subclass that overrides
\* only text_indent, the two concrete screens of the source, and one further
\* subclass that overrides text_indent and whose render, like
\* ExitScreen.render, is display_text(lines) followed by
\* render_with_defaults()
Screens == {"BaseScreen", "IndentScreen", "ExitScreen", "StatusScreen", "CustomScreen"}

\* the screens whose render is BaseScreen.render
BaseRenders == {"BaseScreen", "IndentScreen"}

\* the screens whose render displays text
TextScreens == {"ExitScreen", "StatusScreen", "CustomScreen"}

\* BaseScreen.name
name(s) == Replace(Lower(s), "screen", "")

\* the text_lines argument of n lines used for the custom screen
Lines(n) == [i \in 1..n |-> "line " \o ToString(i)]

\* a layout whose long table stops at four rows
text_yFourRows(n) ==
    IF n = 1 THEN [none |-> FALSE, ys |-> <<0>>]
    ELSE IF n = 2 THEN [none |-> FALSE, ys |-> <<0, 18>>]
    ELSE IF n = 3 THEN [none |-> FALSE, ys |-> <<0, 11, 21>>]
    ELSE IF n < 6 THEN [none |-> FALSE, ys |-> <<0, 11, 21, 31>>]
    ELSE [none |-> TRUE, ys |-> <<>>]

\* BaseScreen.text_y for a recorded line count n: None, or the offsets
text_y(n) ==
    IF n = 1 THEN [none |-> FALSE, ys |-> <<0>>]
    ELSE IF n = 2 THEN [none |-> FALSE, ys |-> <<0, 18>>]
    ELSE IF n = 3 THEN [none |-> FALSE, ys |-> <<0, 11, 21>>]
    ELSE IF n < 6 THEN [none |-> FALSE, ys |-> <<0, 11, 21, 31, 41, 51>>]
    ELSE [none |-> TRUE, ys |-> <<>>]

\* a table that counts an indent of 10 as small
FontSizeIndentInclusive(n, indent) ==
    IF n > 2
    THEN (IF indent <= 10 THEN 10 ELSE 9)
    ELSE (IF indent <= 10 THEN 14 ELSE 13)

\* BaseScreen.set_text_lines: the font size for n lines at an indent
FontSizeFor(n, indent) ==
    IF n > 2
    THEN (IF indent < 10 THEN 10 ELSE 9)
    ELSE (IF indent < 10 THEN 14 ELSE 13)

\* BaseScreen.font_path, BaseScreen.font_bold_path (below Utils.current_dir)
font_path == "/fonts/DejaVuSans.ttf"
font_bold_path == "/fonts/DejaVuSans-Bold.ttf"

NoFont == [path |-> "", size |-> 0, gen |-> 0]

\* a key that ignores the weight
FontKeyNoWeight(size, is_bold) == "font_" \o ToString(size)

\* 'font_{}{}'.format(str(size), suffix), suffix None or '_bold'
FontKey(size, is_bold) ==
    "font_" \o ToString(size) \o (IF is_bold THEN "_bold" ELSE "None")

\* number of ImageFont.truetype calls made so far with these arguments
Rasterized(path, size) ==
    IF <<path, size>> \in DOMAIN rasterized THEN rasterized[<<path, size>>] ELSE 0

\* BaseScreen.font(size, is_bold) on a screen whose font_size is current;
\* size is <<>> for None, <<n>> for a number.  The object ImageFont.truetype makes is named by its
\* arguments and by how many such calls came before it.
Font(current, size, is_bold) ==
    LET sz   == IF size = <<>> \/ size[1] = 0 THEN current ELSE size[1]
        key  == FontKey(sz, is_bold)
        path == IF is_bold THEN font_bold_path ELSE font_path
        hit  == key \in DOMAIN fonts
        made == [path |-> path, size |-> sz, gen |-> Rasterized(path, sz) + 1]
    IN  [size |-> sz, key |-> key, path |-> path, hit |-> hit,
         font |-> IF hit THEN fonts[key] ELSE made]

\* the effect of a font() call that resolved to f on the cache and its history
FontEffects(f, is_bold) ==
    /\ fonts' = IF f.hit THEN fonts ELSE (f.key :> f.font) @@ fonts
    /\ rasterized' = IF f.hit THEN rasterized
                     ELSE (<<f.path, f.size>> :> f.font.gen) @@ rasterized
    /\ returned' = returned \cup {<<f.size, is_bold, f.font>>}

(***************************************************************************)
(* Inputs                                                                  *)
(***************************************************************************)
\* values of text_indent tried for the custom screen
Indents == {0, 9, 10, 20}

\* Display(rotate = ...): not an int, the default False, or degrees
Rotations == {<<"none", 0>>, <<"bool", 0>>, <<"int", 90>>}

\* Display(screenshot = ...): False, True, or a directory
Screenshots == {[on |-> FALSE, dir |-> ""], [on |-> TRUE, dir |-> ""],
                [on |-> TRUE, dir |-> "/tmp/shots//"]}

\* what the metrics collaborator returns, but for the last boot
Metrics ==
    [hostname : {"rpi"}, cpu : {"7"}, mem : {"41"}, disk : {"23"}, temp : {"48.3"},
     ip_eth : {"10.0.0.2"}, ip_wlan : {"unavailable"},
     ping_status : {"on", "off"}, ping_latency : {"12.5"},
     download_speed : {"93.1"}, upload_speed : {"18.2"}]

NoMetrics ==
    [hostname |-> "", cpu |-> "", mem |-> "", disk |-> "", temp |-> "",
     ip_eth |-> "", ip_wlan |-> "", ping_status |-> "", ping_latency |-> "",
     download_speed |-> "", upload_speed |-> ""]

\* the clock at the render, seconds of the day in UTC
Nows == {45296}

\* sensor.system_monitor_last_boot: <<"iso", e>> is a well-formed timestamp
\* e seconds before the clock, <<"bad", 0>> does not parse
Malformed == <<"bad", 0>>

\* elapsed seconds tried: the unit thresholds, their neighbours, decimal ties
Elapsed == {0, 30, 59, 89, 3599, 3600, 3618, 4050, 5400, 86399, 86400, 86832,
            97200, 172800}

(***************************************************************************)
(* State after construction                                                *)
(***************************************************************************)
NoFrame ==
    [screen |-> "", mode |-> "", lines |-> <<>>, line |-> 0, font |-> NoFont,
     m |-> NoMetrics, now |-> 0, elapsed |-> 0, hostname_line |-> ""]

InitWith(drivers, rotations, screenshots, indents) ==
    /\ \E d \in drivers :
          /\ width = DriverSize(d)[1]
          /\ height = DriverSize(d)[2]
    /\ rotate \in rotations
    /\ screenshot \in screenshots
    /\ image = NewImage(width, height)
    /\ device = NewImage(width, height)
    /\ \E i \in indents :
          text_indent = [s \in Screens |->
                            IF s \in {"IndentScreen", "CustomScreen"} THEN i ELSE 0]
    /\ font_size = [s \in Screens |-> 8]
    /\ text_lines = [s \in Screens |-> 0]
    /\ fonts = <<>>
    /\ rasterized = <<>>
    /\ returned = {}
    /\ pc = "idle"
    /\ frame = NoFrame
    /\ log = <<>>
    /\ outcome = "none"
    /\ previous = "none"

Event(ev, arg) == [ev |-> ev, arg |-> arg]

(***************************************************************************)
(* BaseScreen.run and the renders                                          *)
(***************************************************************************)
\* an exception leaves the call in progress and reaches the caller
Raise(exc) ==
    /\ pc' = "idle"
    /\ outcome' = exc
    /\ log' = Append(log, Event("raise", exc))

\* Display.prepare
Prepare(img) == Rectangle(img, width, height)

\* BaseScreen.run up to the call of render: Display.prepare()
Run(s) ==
    /\ pc = "idle"
    /\ image' = Prepare(Aged(image))
    /\ device' = Aged(device)
    /\ pc' = "render"
    /\ frame' = [NoFrame EXCEPT !.screen = s, !.mode = "run"]
    /\ log' = << Event("prepare", "") >>
    /\ previous' = outcome
    /\ outcome' = "running"
    /\ UNCHANGED << displayVars, text_indent, font_size, text_lines, fonts,
                    rasterized, returned >>

\* BaseScreen.render: Display.show(), and run() returns
RenderBase ==
    /\ pc = "render"
    /\ frame.screen \in BaseRenders
    /\ image' = Shown(image, rotate)
    /\ device' = image'
    /\ log' = Append(log, Event("show", ""))
    /\ pc' = "idle"
    /\ outcome' = "returned"
    /\ UNCHANGED << displayVars, text_indent, font_size, text_lines, fonts,
                    rasterized, returned, frame, previous >>

\* ExitScreen.render up to its call of display_text
RenderExit ==
    /\ pc = "render"
    /\ frame.screen = "ExitScreen"
    /\ frame' = [frame EXCEPT !.lines = << "GOOD BYE" >>]
    /\ pc' = "display_text"
    /\ UNCHANGED << displayVars, image, device, text_indent, font_size, text_lines,
                    fonts, rasterized, returned, log, outcome, previous >>

\* the render of the custom screen up to its call of display_text
RenderCustom(n) ==
    /\ pc = "render"
    /\ frame.screen = "CustomScreen"
    /\ frame' = [frame EXCEPT !.lines = Lines(n)]
    /\ pc' = "display_text"
    /\ UNCHANGED << displayVars, image, device, text_indent, font_size, text_lines,
                    fonts, rasterized, returned, log, outcome, previous >>

\* the locals of StatusScreen.render for metrics m, the clock at now and a
\* last boot e seconds before it
StatusLocals(m, now, e) ==
    LET hostname      == m.hostname
        current_time  == human_readable_time_now(now)
        hostname_line == hostname \o " T=" \o current_time \o " +" \o current_time
        resource_line == "C" \o m.cpu \o "% M" \o m.mem \o "% D" \o m.disk
                             \o "% t" \o m.temp \o "°C"
        ip_line       == "A " \o m.ip_eth \o " " \o m.ip_wlan
        ping_line     == IF m.ping_status = "on" THEN m.ping_latency ELSE "XXX"
        wan           == "P" \o ping_line \o " U" \o m.upload_speed
                             \o " D" \o m.download_speed
        boot          == "B " \o human_readable_time_since(e)
    IN  [hostname_line |-> hostname_line,
         lines |-> << hostname, resource_line, ip_line, wan, boot >>]

\* StatusScreen.render up to its call of display_text
RenderStatus(m, now, last_boot) ==
    /\ pc = "render"
    /\ frame.screen = "StatusScreen"
    /\ IF last_boot[1] = "iso"
       THEN /\ frame' = [frame EXCEPT
                           !.m = m, !.now = now, !.elapsed = last_boot[2],
                           !.hostname_line =
                               StatusLocals(m, now, last_boot[2]).hostname_line,
                           !.lines = StatusLocals(m, now, last_boot[2]).lines]
            /\ pc' = "display_text"
            /\ UNCHANGED << log, outcome >>
       ELSE /\ Raise("ValueError")
            /\ UNCHANGED frame
    /\ UNCHANGED << displayVars, image, device, text_indent, font_size, text_lines,
                    fonts, rasterized, returned, previous >>

(***************************************************************************)
(* BaseScreen.display_text                                                 *)
(***************************************************************************)
\* a render that skips the screenshot
AfterDisplayTextThenShow ==
    IF frame.mode = "run"
    THEN pc' = "show" /\ outcome' = outcome
    ELSE pc' = "idle" /\ outcome' = "returned"

\* control leaves display_text normally: back to the render that called it,
\* which goes on to render_with_defaults, or back to the caller
AfterDisplayText ==
    IF frame.mode = "run"
    THEN pc' = "render_with_defaults" /\ outcome' = outcome
    ELSE pc' = "idle" /\ outcome' = "returned"

\* an empty check that never fires
NeverEmpty(lines) == FALSE

\* "not text_lines"
IsEmpty(lines) == Len(lines) = 0

\* display_text up to its loop: the empty check, set_text_lines(len), font();
\* a for loop over no element is left at once
DisplayTextBegin ==
    /\ pc = "display_text"
    /\ LET s == frame.screen
           n == Len(frame.lines)
       IN  IF IsEmpty(frame.lines)
           THEN /\ AfterDisplayText
                /\ UNCHANGED << font_size, text_lines, fonts, rasterized, returned,
                                frame, log >>
           ELSE /\ text_lines' = [text_lines EXCEPT ![s] = n]
                /\ font_size' = [font_size EXCEPT ![s] = FontSizeFor(n, text_indent[s])]
                /\ LET f == Font(font_size'[s], <<>>, FALSE)
                   IN  /\ FontEffects(f, FALSE)
                       /\ frame' = [frame EXCEPT !.font = f.font, !.line = 0]
                /\ log' = Append(log, Event("set_text_lines", ToString(n)))
                /\ IF n = 0
                   THEN AfterDisplayText
                   ELSE pc' = "draw" /\ UNCHANGED outcome
    /\ UNCHANGED << displayVars, image, device, text_indent, previous >>

\* one pass of the loop of display_text
DrawLine ==
    /\ pc = "draw"
    /\ LET s    == frame.screen
           text == frame.lines[frame.line + 1]
           x    == text_indent[s]
           ty   == text_y(text_lines[s])
       IN  IF ty.none
           THEN /\ Raise("TypeError")
                /\ UNCHANGED << image, frame >>
           ELSE IF frame.line + 1 > Len(ty.ys)
           THEN /\ Raise("IndexError")
                /\ UNCHANGED << image, frame >>
           ELSE /\ image' = DrawText(image, x, ty.ys[frame.line + 1], text, frame.font)
                /\ frame' = [frame EXCEPT !.line = @ + 1]
                /\ log' = Append(log, Event("draw", text))
                /\ IF frame.line + 1 >= 6 \/ frame.line + 1 = Len(frame.lines)
                   THEN AfterDisplayText
                   ELSE UNCHANGED << pc, outcome >>
    /\ UNCHANGED << displayVars, device, text_indent, font_size, text_lines, fonts,
                    rasterized, returned, previous >>

(***************************************************************************)
(* BaseScreen.render_with_defaults                                         *)
(***************************************************************************)
\* BaseScreen.capture_screenshot: Display.capture_screenshot(self.name);
\* image.save either writes the file or fails
CaptureScreenshot ==
    /\ pc = "render_with_defaults"
    /\ IF screenshot.on
       THEN \E written \in BOOLEAN :
               IF written
               THEN /\ log' = Append(log, Event("screenshot",
                                 ScreenshotPath(screenshot, name(frame.screen))))
                    /\ pc' = "show"
                    /\ UNCHANGED outcome
               ELSE Raise("OSError")
       ELSE /\ pc' = "show"
            /\ UNCHANGED << log, outcome >>
    /\ UNCHANGED << displayVars, image, device, text_indent, font_size, text_lines,
                    fonts, rasterized, returned, frame, previous >>

\* Display.show
Show ==
    /\ pc = "show"
    /\ image' = Shown(image, rotate)
    /\ device' = image'
    /\ log' = Append(log, Event("show", ""))
    /\ pc' = "sleep"
    /\ UNCHANGED << displayVars, text_indent, font_size, text_lines, fonts,
                    rasterized, returned, frame, outcome, previous >>

\* time.sleep(self.duration), then render_with_defaults, render and run return
Sleep ==
    /\ pc = "sleep"
    /\ log' = Append(log, Event("sleep", ""))
    /\ pc' = "idle"
    /\ outcome' = "returned"
    /\ UNCHANGED << displayVars, image, device, text_indent, font_size, text_lines,
                    fonts, rasterized, returned, frame, previous >>

(***************************************************************************)
(* Calls made on a screen or the display outside a run()                   *)
(***************************************************************************)
\* screen.display_text(Lines(n))
DisplayTextCall(s, n) ==
    /\ pc = "idle"
    /\ n = 0 \/ Cardinality(image.items) <= MaxItems
    /\ frame' = [NoFrame EXCEPT !.screen = s, !.mode = "direct", !.lines = Lines(n)]
    /\ image' = Aged(image)
    /\ pc' = "display_text"
    /\ log' = <<>>
    /\ outcome' = "running"
    /\ UNCHANGED << displayVars, device, text_indent, font_size, text_lines,
                    fonts, rasterized, returned, previous >>

\* display.clear(): device.begin(), device.clear(), device.display() leave
\* the device blank; the canvas is not touched
ClearCall ==
    /\ pc = "idle"
    /\ device' = NewImage(width, height)
    /\ frame' = [NoFrame EXCEPT !.mode = "clear"]
    /\ log' = << Event("begin", ""), Event("clear", ""), Event("display", "") >>
    /\ UNCHANGED << displayVars, image, text_indent, font_size, text_lines, fonts,
                    rasterized, returned, pc, outcome, previous >>

\* display.prepare()
PrepareCall ==
    /\ pc = "idle"
    /\ image.items # {}
    /\ image' = Prepare(image)
    /\ UNCHANGED << displayVars, device, text_indent, font_size, text_lines, fonts,
                    rasterized, returned, pc, frame, log, outcome, previous >>

\* screen.set_text_lines(n)
SetTextLinesCall(s, n) ==
    /\ pc = "idle"
    /\ text_lines' = [text_lines EXCEPT ![s] = n]
    /\ font_size' = [font_size EXCEPT ![s] = FontSizeFor(n, text_indent[s])]
    /\ UNCHANGED << displayVars, image, device, text_indent, fonts, rasterized,
                    returned, pc, frame, log, outcome, previous >>

\* screen.font(size, is_bold)
FontCall(s, size, is_bold) ==
    /\ pc = "idle"
    /\ LET f == Font(font_size[s], size, is_bold)
       IN  /\ FontEffects(f, is_bold)
           /\ log' = << Event(IF f.hit THEN "cached" ELSE "truetype", "") >>
    /\ frame' = NoFrame
    /\ outcome' = "returned"
    /\ UNCHANGED << displayVars, image, device, text_indent, font_size, text_lines,
                    pc, previous >>

(***************************************************************************)
(* Specifications                                                          *)
(***************************************************************************)
\* the default display, and the custom screen at every indent
DefaultDisplay ==
    InitWith({"SSD1306"}, {<<"bool", 0>>}, {[on |-> FALSE, dir |-> ""]}, Indents)

\* run() cycles of the screens on one shared Display, and display.clear()
Init ==
    InitWith({"SSD1309", "SH1106"}, {<<"none", 0>>, <<"bool", 0>>, <<"int", 90>>},
             {[on |-> FALSE, dir |-> ""], [on |-> TRUE, dir |-> "/tmp/shots//"]}, {10})

Next ==
    \/ \E s \in Screens : Run(s)
    \/ ClearCall
    \/ RenderBase
    \/ RenderExit
    \/ \E n \in 0..MaxLines : RenderCustom(n)
    \/ \E m \in Metrics, now \in Nows, b \in {<<"iso", 5400>>, Malformed} :
          RenderStatus(m, now, b)
    \/ DisplayTextBegin
    \/ DrawLine
    \/ CaptureScreenshot
    \/ Show
    \/ Sleep

Spec == Init /\ [][Next]_vars

\* display_text called on the custom screen, at every indent, outside a run()
NextText ==
    \/ \E n \in 0..MaxLines : DisplayTextCall("CustomScreen", n)
    \/ PrepareCall
    \/ DisplayTextBegin
    \/ DrawLine

SpecText == DefaultDisplay /\ [][NextText]_vars

\* font() called on every screen, between set_text_lines calls
FontSizes == {<<>>, <<0>>, <<10>>}
LineCounts == {2, 3}

NextFont ==
    \/ \E s \in TextScreens, n \in LineCounts : SetTextLinesCall(s, n)
    \/ \E s \in TextScreens, size \in FontSizes, is_bold \in BOOLEAN :
          FontCall(s, size, is_bold)

InitFont ==
    InitWith({"SSD1306"}, {<<"bool", 0>>}, {[on |-> FALSE, dir |-> ""]}, {10})

SpecFont == InitFont /\ [][NextFont]_vars

\* run() cycles of the StatusScreen over the elapsed times
InitTime ==
    InitWith({"SSD1306"}, {<<"bool", 0>>}, Screenshots, {0})

NextTime ==
    \/ Run("StatusScreen")
    \/ \E m \in Metrics, now \in Nows,
          b \in {<<"iso", e>> : e \in Elapsed} \cup {Malformed} :
          RenderStatus(m, now, b)
    \/ DisplayTextBegin
    \/ DrawLine
    \/ CaptureScreenshot
    \/ Show
    \/ Sleep

SpecTime == InitTime /\ [][NextTime]_vars

(***************************************************************************)
(* Properties                                                              *)
(***************************************************************************)
\* the texts drawn by the call in progress, in order
Drawn == [i \in 1..Len(SelectSeq(log, LAMBDA e : e.ev = "draw")) |->
              SelectSeq(log, LAMBDA e : e.ev = "draw")[i].arg]

\* a display_text call made outside a run() has ended
DirectDone == pc = "idle" /\ frame.mode = "direct" /\ outcome # "running"

\* a run() has returned
RunReturned == pc = "idle" /\ frame.mode = "run" /\ outcome = "returned"

StrictlyIncreasing(ys) == \A i \in 1..(Len(ys) - 1) : ys[i] < ys[i + 1]

\* C1: display_text called with more than 5 lines returns normally, having
\* drawn exactly the first 5 lines in order.
C1_ExcessLinesDropped ==
    (DirectDone /\ Len(frame.lines) > 5)
        => (outcome = "returned" /\ Drawn = SubSeq(frame.lines, 1, 5))

\* C2 as stated: for a recorded line count n in 1..5, text_y holds exactly n
\* offsets, the first 0, strictly increasing.
C2_ExactlyNOffsets ==
    \A s \in Screens :
        text_lines[s] \in 1..5 =>
            /\ ~text_y(text_lines[s]).none
            /\ Len(text_y(text_lines[s]).ys) = text_lines[s]
            /\ text_y(text_lines[s]).ys[1] = 0
            /\ StrictlyIncreasing(text_y(text_lines[s]).ys)

\* C2 amended: for a recorded line count n in 1..5, text_y holds exactly n
\* offsets when n <= 3 and 6 offsets when n is 4 or 5, so at least n; the
\* first is 0 and they are strictly increasing.
C2_AtLeastNOffsets ==
    \A s \in Screens :
        text_lines[s] \in 1..5 =>
            /\ ~text_y(text_lines[s]).none
            /\ Len(text_y(text_lines[s]).ys)
                   = (IF text_lines[s] <= 3 THEN text_lines[s] ELSE 6)
            /\ text_y(text_lines[s]).ys[1] = 0
            /\ StrictlyIncreasing(text_y(text_lines[s]).ys)

C2_Witness ==
    /\ DirectDone
    /\ outcome = "returned"
    /\ text_lines["CustomScreen"] = 4
    /\ Drawn = Lines(4)

\* C3: StatusScreen.render passes 5 lines to display_text: the hostname
\* together with the current time, then the resource, IP, WAN and
\* boot-since lines.
C3_FiveLinesInOrder ==
    (pc = "display_text" /\ frame.screen = "StatusScreen") =>
        /\ Len(frame.lines) = 5
        /\ Contains(frame.lines[1], frame.m.hostname)
        /\ Contains(frame.lines[1], human_readable_time_now(frame.now))
        /\ Contains(frame.lines[2], "C" \o frame.m.cpu \o "% M" \o frame.m.mem)
        /\ Contains(frame.lines[3], frame.m.ip_eth)
        /\ Contains(frame.lines[4], " U" \o frame.m.upload_speed \o " D"
                                       \o frame.m.download_speed)
        /\ Contains(frame.lines[5], " ago")

\* C4: display_text called with an empty sequence draws nothing and leaves
\* font_size, the recorded line count and the canvas as they were.
C4_EmptyTextChangesNothing ==
    [][(pc = "display_text" /\ frame.lines = <<>>)
          => (/\ UNCHANGED << font_size, text_lines, image, fonts >>
              /\ log' = log
              /\ pc' = "idle"
              /\ outcome' = "returned")]_vars

C4_Witness ==
    /\ DirectDone
    /\ frame.lines = <<>>
    /\ outcome = "returned"
    /\ image.items # {}
    /\ font_size["CustomScreen"] # 8
    /\ text_lines["CustomScreen"] = 3

\* the unit and divisor the claim gives for e elapsed seconds
C5_Unit(e) ==
    IF e < 3600 THEN <<"m", 60>>
    ELSE IF e < 86400 THEN <<"h", 3600>>
    ELSE <<"d", 86400>>

\* C5: for a timestamp e seconds before now, the boot line shows e/60 with
\* unit m when e < 3600, e/3600 with unit h when 3600 <= e < 86400, e/86400
\* with unit d otherwise, at two decimal digits (the shown value within half
\* a hundredth of the quotient); 30 gives 0.50m, 5400 1.50h, 172800 2.00d.
C5_TimeSince ==
    (pc = "display_text" /\ frame.screen = "StatusScreen") =>
        LET e    == frame.elapsed
            unit == C5_Unit(e)[1]
            div  == C5_Unit(e)[2]
            q    == (100 * e) \div div
        IN  /\ \E v \in {q, q + 1} :
                  /\ 2 * (100 * e - v * div) <= div
                  /\ 2 * (v * div - 100 * e) <= div
                  /\ frame.lines[5] =
                         "B " \o ToString(v \div 100) \o "."
                              \o ToString((v \div 10) % 10) \o ToString(v % 10)
                              \o unit \o " ago"
            /\ e = 30 => frame.lines[5] = "B 0.50m ago"
            /\ e = 5400 => frame.lines[5] = "B 1.50h ago"
            /\ e = 172800 => frame.lines[5] = "B 2.00d ago"

C5_Witness ==
    /\ pc = "display_text"
    /\ frame.screen = "StatusScreen"
    /\ frame.elapsed = 86400
    /\ frame.lines[5] = "B 1.00d ago"

\* C6: the rasterizer is invoked at most once per (size, bold); two font
\* calls return the same object exactly when their size and boldness agree.
C6_FontCache ==
    /\ \A k \in DOMAIN rasterized : rasterized[k] <= 1
    /\ \A a, b \in returned : (a[1] = b[1] /\ a[2] = b[2]) <=> a[3] = b[3]

C6_Witness ==
    /\ log = << Event("cached", "") >>
    /\ \E a, b \in returned : a[1] = b[1] /\ a[2] # b[2]
    /\ \E a, b \in returned : a[1] # b[1] /\ a[2] = b[2]

\* C7: a run() of a screen that displays text, once returned, has cleared
\* the canvas, then computed line count and font size, then drawn the lines
\* in order, then captured the screenshot if enabled, then flipped once, then
\* slept, and nothing else.
C7_CycleOrder ==
    (RunReturned /\ frame.screen \in TextScreens) =>
        LET n    == Len(frame.lines)
            k    == IF n = 0 THEN 0 ELSE n + 1
            shot == IF screenshot.on THEN 1 ELSE 0
        IN  /\ Len(log) = 1 + k + shot + 2
            /\ log[1].ev = "prepare"
            /\ n > 0 => log[2] = Event("set_text_lines", ToString(n))
            /\ \A i \in 1..n : log[2 + i] = Event("draw", frame.lines[i])
            /\ shot = 1 => log[1 + k + 1].ev = "screenshot"
            /\ log[Len(log) - 1].ev = "show"
            /\ log[Len(log)].ev = "sleep"

C7_Witness ==
    /\ RunReturned
    /\ frame.screen = "StatusScreen"
    /\ screenshot.on
    /\ previous = "returned"

\* the run() before the one in progress raised
AfterFailure == previous \in {"ValueError", "OSError", "TypeError"}

\* C8: after a run() failed partway, the next run() starts its render from
\* a blank canvas of the construction-time dimensions and pushes to the
\* device only what its own cycle drew.
C8_CleanAfterFailure ==
    AfterFailure =>
        /\ pc = "render" => image = NewImage(width, height)
        /\ image.size = <<width, height>>
        /\ (pc = "sleep" \/ RunReturned) =>
              /\ device.size = <<width, height>>
              /\ \A it \in device.items :
                    /\ it.fresh
                    /\ \E i \in 1..Len(frame.lines) : it.text = frame.lines[i]

C8_Witness ==
    /\ previous = "OSError"
    /\ pc = "sleep"
    /\ frame.screen = "ExitScreen"
    /\ device.items # {}

\* C10: with a rotation of d degrees, the image each run() pushes is that
\* cycle's drawn content turned by d exactly once.
C10_RotatedOnce ==
    (IsInt(rotate) /\ (pc = "sleep" \/ RunReturned)) =>
        /\ \A it \in device.items : it.rot = rotate[2] /\ it.fresh
        /\ {it.text : it \in device.items} = {frame.lines[i] : i \in 1..Len(frame.lines)}
        /\ image = device

C10_Witness ==
    /\ rotate = <<"int", 90>>
    /\ pc = "sleep"
    /\ previous = "returned"
    /\ device.items # {}

\* the font size of the table for n lines at an indent
C9_Table(n, indent) ==
    IF n > 2 /\ indent < 10 THEN 10
    ELSE IF n > 2 THEN 9
    ELSE IF indent < 10 THEN 14
    ELSE 13

\* C9: every line a display_text call of 1 to 5 lines draws uses the font
\* size the table gives for that call's line count and the screen's indent.
C9_FontSizeOfCurrentCall ==
    (frame.mode = "direct" /\ Len(frame.lines) \in 1..5 /\ pc \in {"draw", "idle"}) =>
        LET size == C9_Table(Len(frame.lines), text_indent[frame.screen])
        IN  /\ frame.font.size = size
            /\ font_size[frame.screen] = size
            /\ text_lines[frame.screen] = Len(frame.lines)
            /\ \A it \in image.items : it.fresh => it.font.size = size

C9_Witness ==
    /\ DirectDone
    /\ text_indent["CustomScreen"] = 10
    /\ \E a, b \in image.items :
          a.fresh /\ ~b.fresh /\ a.font.size = 9 /\ b.font.size = 13

====
